---- MODULE Spec2Model ----
(***************************************************************************)
(* A model of IPython/core/completer.py: the CompletionSplitter, the       *)
(* built-in matchers, the custom-completer dispatch and the two access     *)
(* protocols of IPCompleter (batch complete, indexed rlcomplete).          *)
(*                                                                         *)
(* Python strings are TLA+ strings; Len, \o and SubSeq act on them.  None  *)
(* is a value no modelled string equals.  A call's outcome is a record     *)
(* [kind |-> "ok", val |-> v] or [kind |-> "raise", val |-> exception].    *)
(***************************************************************************)
EXTENDS Integers, Sequences, FiniteSets, TLC

\* ------------------------------------------------------------------------
\* Python string primitives
\* ------------------------------------------------------------------------

\* Python's None
None == "<None>"

\* The printable ASCII characters in code-point order, without the backquote
\* (code 96): AsciiLo[i] has code i+31 and AsciiHi[i] has code i+96.
AsciiLo == " !\"#$%&'()*+,-./0123456789:;<=>?@ABCDEFGHIJKLMNOPQRSTUVWXYZ[\\]^_"
AsciiHi == "abcdefghijklmnopqrstuvwxyz{|}~"

\* s[i] for a 1-based index
Ch(s, i) == SubSeq(s, i, i)

\* the code of each character of the two tables
OrdTable ==
    [c \in {Ch(AsciiLo, i) : i \in 1..Len(AsciiLo)}
            \cup {Ch(AsciiHi, i) : i \in 1..Len(AsciiHi)} |->
        IF \E i \in 1..Len(AsciiLo) : Ch(AsciiLo, i) = c
        THEN 31 + (CHOOSE i \in 1..Len(AsciiLo) : Ch(AsciiLo, i) = c)
        ELSE 96 + (CHOOSE i \in 1..Len(AsciiHi) : Ch(AsciiHi, i) = c)]

\* ord(c) of a one-character string
Ord(c) ==
    IF c = "\t" THEN 9
    ELSE IF c = "\n" THEN 10
    ELSE OrdTable[c]

\* chr(n) for the code of a letter
Chr(n) == IF n <= 95 THEN Ch(AsciiLo, n - 31) ELSE Ch(AsciiHi, n - 96)

\* c.lower() of one character
LowerCh(c) == IF Ord(c) >= 65 /\ Ord(c) <= 90 THEN Chr(Ord(c) + 32) ELSE c

RECURSIVE lower(_)
\* str.lower
lower(s) == IF s = "" THEN "" ELSE LowerCh(Ch(s, 1)) \o lower(Tail(s))

\* str.startswith
startswith(s, p) == Len(p) <= Len(s) /\ SubSeq(s, 1, Len(p)) = p

\* c in str, for a one-character c
InStr(c, s) == \E i \in 1..Len(s) : Ch(s, i) = c

\* sub in s, for any substring
Contains(s, sub) ==
    \E i \in 1..(Len(s) - Len(sub) + 1) : SubSeq(s, i, i + Len(sub) - 1) = sub

\* the characters str.strip() and str.split(None) treat as whitespace
Whitespace == " \t\n"

RECURSIVE lstripChars(_, _)
\* str.lstrip(chars)
lstripChars(s, chars) ==
    IF s # "" /\ InStr(Ch(s, 1), chars) THEN lstripChars(Tail(s), chars) ELSE s

RECURSIVE rstripChars(_, _)
\* str.rstrip(chars)
rstripChars(s, chars) ==
    IF s # "" /\ InStr(Ch(s, Len(s)), chars)
    THEN rstripChars(SubSeq(s, 1, Len(s) - 1), chars) ELSE s

\* str.lstrip() and str.strip()
lstrip(s) == lstripChars(s, Whitespace)
strip(s) == rstripChars(lstripChars(s, Whitespace), Whitespace)

\* line.split(None, 1)[0] of a line that is not blank: its first word
FirstWord(line) ==
    LET l == lstrip(line)
        n == IF \E i \in 1..Len(l) : InStr(Ch(l, i), Whitespace)
             THEN (CHOOSE i \in 1..Len(l) :
                      /\ InStr(Ch(l, i), Whitespace)
                      /\ \A j \in 1..(i - 1) : ~InStr(Ch(l, j), Whitespace)) - 1
             ELSE Len(l)
    IN SubSeq(l, 1, n)

\* s[:n] for n >= 0
Prefix(s, n) == SubSeq(s, 1, IF n < Len(s) THEN n ELSE Len(s))

RECURSIVE StrLess(_, _)
\* a < b for Python 2 byte strings
StrLess(a, b) ==
    IF b = "" THEN FALSE
    ELSE IF a = "" THEN TRUE
    ELSE IF Ch(a, 1) = Ch(b, 1) THEN StrLess(Tail(a), Tail(b))
    ELSE Ord(Ch(a, 1)) < Ord(Ch(b, 1))

\* the elements of a list, as a set
Range(seq) == {seq[i] : i \in 1..Len(seq)}

RECURSIVE Insert(_, _)
\* the sorted list srt with x put in its place, unless it is there already
Insert(srt, x) ==
    IF srt = <<>> THEN <<x>>
    ELSE IF x = Head(srt) THEN srt
    ELSE IF StrLess(x, Head(srt)) THEN <<x>> \o srt
    ELSE <<Head(srt)>> \o Insert(Tail(srt), x)

RECURSIVE SortedSetOf(_)
\* sorted(set(lst)), by insertion
SortedSetOf(lst) ==
    IF lst = <<>> THEN <<>> ELSE Insert(SortedSetOf(Tail(lst)), Head(lst))

\* a completer that returned the aggregate as it came
sorted_set_AsGiven(lst) == lst

\* sorted(set(lst))
sorted_set(lst) == SortedSetOf(lst)

\* ------------------------------------------------------------------------
\* Outcomes of calls
\* ------------------------------------------------------------------------

\* a call that returned v
Ok(v) == [kind |-> "ok", val |-> v]

\* a call that raised exception e
Raise(e) == [kind |-> "raise", val |-> e]

\* ------------------------------------------------------------------------
\* CompletionSplitter
\* ------------------------------------------------------------------------

\* CompletionSplitter._delims, the default delimiters (the backquote, which
\* no modelled line holds, is left out)
DELIMS == " \t\n!@#$^&*()=+[{]}\\|;:'\",<>?"

\* re.split on the class of the delimiter characters, last piece: the part
\* of l after its last delimiter
LastPiece(l, delims) ==
    LET cut == {i \in 1..Len(l) : InStr(Ch(l, i), delims)}
        last == IF cut = {} THEN 0 ELSE CHOOSE i \in cut : \A j \in cut : j <= i
    IN SubSeq(l, last + 1, Len(l))

\* the characters \d matches
Digits == "0123456789"

\* the characters the escape '\\' + c matches inside the character class
\* set_delims builds, for c a punctuation character, a blank or a lower-case
\* letter: the class of c for d, s and w, the control character for f, n, r
\* and t (and for a, b and v, whose control characters no line here holds),
\* c itself for every other one
ClassEscape(c) ==
    CASE c = "d" -> Digits
      [] c = "s" -> " \t\n\r\f"
      [] c = "w" -> "ABCDEFGHIJKLMNOPQRSTUVWXYZabcdefghijklmnopqrstuvwxyz0123456789_"
      [] c = "f" -> "\f"
      [] c = "n" -> "\n"
      [] c = "r" -> "\r"
      [] c = "t" -> "\t"
      [] c \in {"a", "b", "v"} -> ""
      [] OTHER -> c

RECURSIVE delim_class(_)
\* the characters re.compile('[' + ''.join('\\'+ c for c in delims) + ']')
\* matches
delim_class(delims) ==
    IF delims = "" THEN "" ELSE ClassEscape(Ch(delims, 1)) \o delim_class(Tail(delims))

\* CompletionSplitter.set_delims(delims): the compiled class, or the error
\* re.compile raises for the empty class '[]'
set_delims(delims) ==
    IF delims = "" THEN Raise("re.error") ELSE Ok(delim_class(delims))

\* cursor_pos=None, for an argument that is otherwise a position >= 0
NoPos == -1

\* CompletionSplitter.split_line(line, cursor_pos) when self._delim_re
\* matches the characters of delims; slicing None raises TypeError
split_line(delims, line, cursor_pos) ==
    IF line = None THEN Raise("TypeError")
    ELSE LET l == IF cursor_pos = NoPos THEN line ELSE Prefix(line, cursor_pos)
         IN Ok(LastPiece(l, delims))

\* ------------------------------------------------------------------------
\* The interpreter the completer looks into: keywords, builtins, the
\* namespaces and the objects bound in them.  A dict is the list of its
\* (key, value) pairs in iteration order.
\* ------------------------------------------------------------------------

\* keyword.kwlist (an excerpt)
KwList == <<"for", "from">>

\* __builtin__.__dict__ (an excerpt)
BuiltinDict == << <<"format", "builtin_format">> >>

\* the dict handed to the constructor as namespace
UserNs == << <<"foo", "fn_foo">>, <<"alpha", "inst_alpha">>,
             <<"format", "fn_foo">>, <<"__builtins__", "mod_builtin">> >>

\* the dict handed to the constructor as global_namespace
GlobalNs == << <<"Fob", "inst_beta">>, <<"alpha", "inst_beta">>,
               <<"__builtins__", "mod_builtin">> >>

\* __main__.__dict__: the names of the interactive session
MainDict == << <<"foo", "fn_foo">>, <<"alpha", "inst_alpha">>,
               <<"__builtins__", "mod_builtin">> >>

\* self.namespace while no dict is bound to it (use_main_ns)
Unbound == << <<"<unbound>", "<unbound>">> >>

\* dict.keys()
Keys(d) == [i \in 1..Len(d) |-> d[i][1]]

\* key in d
HasKey(d, k) == \E i \in 1..Len(d) : d[i][1] = k

\* d[k], for a key of d
Lookup(d, k) == d[CHOOSE i \in 1..Len(d) : d[i][1] = k][2]

\* dir2(obj) joined with getattr: the members of each object, sorted by name
ObjMembers(obj) ==
    CASE obj = "inst_alpha" ->
            << <<"__doc__", "inst_str">>, <<"_hid", "inst_str">>,
               <<"beta", "inst_beta">>, <<"gamma", "fn_foo">> >>
      [] obj = "inst_beta" -> << <<"go", "fn_go">> >>
      [] obj = "inst_str" -> << <<"upper", "fn_go">> >>
      [] obj = "mod_builtin" -> BuiltinDict
      [] OTHER -> <<>>

\* IPCompleter._default_arguments(obj): the parameters of a callable that
\* have a default; empty for what inspect.getargspec rejects (builtins)
default_arguments(obj) ==
    CASE obj = "fn_foo" -> <<"baz", "qux">>
      [] obj = "fn_go" -> <<"bar">>
      [] OTHER -> <<>>

\* \w
WordChars == "ABCDEFGHIJKLMNOPQRSTUVWXYZabcdefghijklmnopqrstuvwxyz0123456789_"

\* re.match(r'\w+$', s)
IsWord(s) == s # "" /\ \A i \in 1..Len(s) : InStr(Ch(s, i), WordChars)

\* re.match(r'\w*$', s)
IsWordOrEmpty(s) == \A i \in 1..Len(s) : InStr(Ch(s, i), WordChars)

\* a Python identifier that is no keyword
IsName(s) ==
    /\ IsWord(s)
    /\ ~InStr(Ch(s, 1), "0123456789")
    /\ \A i \in 1..Len(KwList) : KwList[i] # s

\* the value eval gives a failing expression
EvalFailed == "<eval failed>"

\* s.split('.'): the pieces of s between its dots
RECURSIVE SplitDots(_)
SplitDots(s) ==
    IF ~InStr(".", s) THEN <<s>>
    ELSE LET i == CHOOSE k \in 1..Len(s) :
                     Ch(s, k) = "." /\ \A j \in 1..(k - 1) : Ch(s, j) # "."
         IN <<SubSeq(s, 1, i - 1)>> \o SplitDots(SubSeq(s, i + 1, Len(s)))

\* getattr along a chain of member names, or EvalFailed
RECURSIVE GetAttrs(_, _)
GetAttrs(obj, names) ==
    IF names = <<>> THEN obj
    ELSE IF IsName(Head(names)) /\ HasKey(ObjMembers(obj), Head(names))
         THEN GetAttrs(Lookup(ObjMembers(obj), Head(names)), Tail(names))
         ELSE EvalFailed

\* eval(expr, ns) of a dotted chain of names: the first name is looked up in
\* ns, then in the builtins, the others are attributes.  Every other
\* expression, a name bound nowhere and an unbound ns (ns = Unbound, the
\* AttributeError of self.namespace) give EvalFailed.  The modelled lines
\* hold no literal, call or subscript before a dot.
Eval(expr, ns) ==
    LET names == SplitDots(expr)
        first == Head(names)
    IN IF ns = Unbound \/ ~IsName(first) THEN EvalFailed
       ELSE IF HasKey(ns, first) THEN GetAttrs(Lookup(ns, first), Tail(names))
       ELSE IF HasKey(BuiltinDict, first)
            THEN GetAttrs(Lookup(BuiltinDict, first), Tail(names))
       ELSE EvalFailed

\* ------------------------------------------------------------------------
\* Completer: global_matches, attr_matches
\* ------------------------------------------------------------------------

\* a global_matches that scans the namespaces before the builtins and keeps
\* the name "__builtins__"
global_matches_NamespacesFirst(ns, gns, text) ==
    IF ns = Unbound THEN Raise("AttributeError")
    ELSE LET words == KwList \o Keys(ns) \o Keys(gns) \o Keys(BuiltinDict)
             n == Len(text)
             Hit(word) == Prefix(word, n) = text
         IN Ok(SelectSeq(words, Hit))

\* Completer.global_matches(text) with self.namespace = ns and
\* self.global_namespace = gns; an unbound self.namespace raises
global_matches(ns, gns, text) ==
    IF ns = Unbound THEN Raise("AttributeError")
    ELSE LET words == KwList \o Keys(BuiltinDict) \o Keys(ns) \o Keys(gns)
             n == Len(text)
             Hit(word) == Prefix(word, n) = text /\ word # "__builtins__"
         IN Ok(SelectSeq(words, Hit))

\* an attr_matches that asks the global namespace first
attr_matches_SecondaryFirst(ns, gns, text) ==
    LET dots == {i \in 1..Len(text) : Ch(text, i) = "."}
        d == CHOOSE i \in dots : \A j \in dots : j <= i
        expr == SubSeq(text, 1, d - 1)
        attr == SubSeq(text, d + 1, Len(text))
        m == /\ dots # {}
             /\ expr # ""
             /\ \A i \in 1..Len(expr) : ~InStr(Ch(expr, i), Whitespace)
             /\ IsWordOrEmpty(attr)
        obj1 == Eval(expr, gns)
        obj == IF obj1 # EvalFailed THEN obj1 ELSE Eval(expr, ns)
        words == Keys(ObjMembers(obj))
        n == Len(attr)
        Hit(w) == Prefix(w, n) = attr
        Qualify(w) == expr \o "." \o w
        hits == SelectSeq(words, Hit)
    IN IF ~m THEN <<>>
       ELSE IF obj = EvalFailed THEN <<>>
       ELSE [i \in 1..Len(hits) |-> Qualify(hits[i])]

\* Completer.attr_matches(text): text is expr '.' attr, attr of word
\* characters and expr without whitespace; expr is evaluated in ns, then in
\* gns, and the members of the object that start with attr are listed
attr_matches(ns, gns, text) ==
    LET dots == {i \in 1..Len(text) : Ch(text, i) = "."}
        d == CHOOSE i \in dots : \A j \in dots : j <= i
        expr == SubSeq(text, 1, d - 1)
        attr == SubSeq(text, d + 1, Len(text))
        m == /\ dots # {}
             /\ expr # ""
             /\ \A i \in 1..Len(expr) : ~InStr(Ch(expr, i), Whitespace)
             /\ IsWordOrEmpty(attr)
        obj1 == Eval(expr, ns)
        obj == IF obj1 # EvalFailed THEN obj1 ELSE Eval(expr, gns)
        words == Keys(ObjMembers(obj))
        n == Len(attr)
        Hit(w) == Prefix(w, n) = attr
        Qualify(w) == expr \o "." \o w
        hits == SelectSeq(words, Hit)
    IN IF ~m THEN <<>>
       ELSE IF obj = EvalFailed THEN <<>>
       ELSE [i \in 1..Len(hits) |-> Qualify(hits[i])]

\* ------------------------------------------------------------------------
\* The file system and the shell that file_matches, magic_matches and
\* alias_matches look into
\* ------------------------------------------------------------------------

\* the paths that exist, relative to the current directory or absolute, each
\* with "d" for a directory or "f" for a file, in os.listdir order
FileSystem == << <<"a.txt", "f">>, <<"sub", "d">>, <<"sub/fo", "f">>,
                 <<"fo o", "f">>, <<"/h", "d">>, <<"/h/fy", "f">> >>

\* the home directory os.path.expanduser puts for a leading ~
HOME == "/h"

\* shell.lsmagic(): the names of the magics, without the escape
Magics == <<"foo", "cd">>

\* self.alias_table.keys()
AliasKeys == <<"ls", "foo", "sudo">>

\* ESC_MAGIC of IPython.core.prefilter, the value of self.magic_escape
ESC_MAGIC == "%"

\* PROTECTABLES on a platform that is not win32
PROTECTABLES == " ()"

RECURSIVE protect_filename(_)
\* protect_filename(s): a backslash before each protectable character
protect_filename(s) ==
    IF s = "" THEN ""
    ELSE (IF InStr(Ch(s, 1), PROTECTABLES) THEN "\\" \o Ch(s, 1) ELSE Ch(s, 1))
         \o protect_filename(Tail(s))

\* os.path.isdir(x)
isdir(x) ==
    \E i \in 1..Len(FileSystem) :
        /\ FileSystem[i][2] = "d"
        /\ x \in {FileSystem[i][1], FileSystem[i][1] \o "/"}

\* mark_dirs(matches): '/' appended to the matches that are directories
mark_dirs(ms) == [i \in 1..Len(ms) |-> IF isdir(ms[i]) THEN ms[i] \o "/" ELSE ms[i]]

\* os.path.expanduser(path): ~ and ~/... go to the home directory; no other
\* user is known, so ~name stays as it is
expanduser(path) ==
    IF path = "~" \/ startswith(path, "~/") THEN HOME \o Tail(path) ELSE path

RECURSIVE RemoveChar(_, _)
\* s.replace(c, '')
RemoveChar(s, c) ==
    IF s = "" THEN ""
    ELSE (IF Ch(s, 1) = c THEN "" ELSE Ch(s, 1)) \o RemoveChar(Tail(s), c)

\* s.count(c)
Count(s, c) == Cardinality({i \in 1..Len(s) : Ch(s, i) = c})

\* s.split(c)[-1]: what follows the last c
AfterLast(s, c) == LastPiece(s, c)

\* glob.glob(text + '*') for a text without wildcards: the paths that extend
\* text within one directory, hidden names left out
glob_star(text) ==
    LET Hit(e) ==
            LET p == e[1]
                rest == SubSeq(p, Len(text) + 1, Len(p))
                base == AfterLast(p, "/")
            IN /\ startswith(p, text)
               /\ ~InStr("/", rest)
               /\ p # "/"
               /\ (Ch(base, 1) = "." => startswith(AfterLast(text, "/"), "."))
               /\ (text = "" => Ch(p, 1) # "/")
    IN Keys(SelectSeq(FileSystem, Hit))

RECURSIVE ShlexScan(_, _, _, _, _, _, _, _)
\* shlex.split(s) in POSIX mode, read_token's machine: st is its state
\* ("ws" between tokens, "a" in a word, a quote, or the backslash), esc the
\* state an escape returns to, tok the token being read, quoted whether it
\* held a quote; the result keeps only the last token (have: there is one)
ShlexScan(s, i, st, esc, tok, quoted, last, have) ==
    IF i > Len(s)
    THEN CASE st = "ws" -> [err |-> "", have |-> have, last |-> last]
           [] st = "a" -> IF tok # "" \/ quoted
                          THEN [err |-> "", have |-> TRUE, last |-> tok]
                          ELSE [err |-> "", have |-> have, last |-> last]
           [] OTHER -> [err |-> "ValueError", have |-> have, last |-> last]
    ELSE LET c == Ch(s, i)
         IN CASE st = "ws" ->
                   IF InStr(c, " \t\n") THEN ShlexScan(s, i + 1, "ws", esc, tok, quoted, last, have)
                   ELSE IF c = "\\" THEN ShlexScan(s, i + 1, "\\", "a", tok, quoted, last, have)
                   ELSE IF InStr(c, "'\"") THEN ShlexScan(s, i + 1, c, esc, tok, TRUE, last, have)
                   ELSE ShlexScan(s, i + 1, "a", esc, c, quoted, last, have)
              [] st = "a" ->
                   IF InStr(c, " \t\n")
                   THEN IF tok # "" \/ quoted
                        THEN ShlexScan(s, i + 1, "ws", esc, "", FALSE, tok, TRUE)
                        ELSE ShlexScan(s, i + 1, "ws", esc, tok, quoted, last, have)
                   ELSE IF InStr(c, "'\"") THEN ShlexScan(s, i + 1, c, esc, tok, TRUE, last, have)
                   ELSE IF c = "\\" THEN ShlexScan(s, i + 1, "\\", "a", tok, quoted, last, have)
                   ELSE ShlexScan(s, i + 1, "a", esc, tok \o c, quoted, last, have)
              [] st = "\\" ->
                   IF InStr(esc, "'\"") /\ c # "\\" /\ c # esc
                   THEN ShlexScan(s, i + 1, esc, esc, tok \o "\\" \o c, quoted, last, have)
                   ELSE ShlexScan(s, i + 1, esc, esc, tok \o c, quoted, last, have)
              [] OTHER ->
                   IF c = st THEN ShlexScan(s, i + 1, "a", esc, tok, TRUE, last, have)
                   ELSE IF c = "\\" /\ st = "\""
                        THEN ShlexScan(s, i + 1, "\\", st, tok, TRUE, last, have)
                   ELSE ShlexScan(s, i + 1, st, esc, tok \o c, TRUE, last, have)

\* shlex.split(s)[-1]: err is "" (last holds the token), "ValueError" (an
\* open quote or a trailing backslash) or "IndexError" (no token at all)
shlex_last(s) ==
    LET r == ShlexScan(s, 1, "ws", "a", "", FALSE, "", FALSE)
    IN IF r.err = "" /\ ~r.have THEN [r EXCEPT !.err = "IndexError"] ELSE r

\* the end of file_matches, with m0 = self.clean_glob(text.replace('\\',''))
file_matches_glob(text_prefix, text0, open_quotes, has_protectables, len_lsplit, m0) ==
    IF has_protectables
    THEN mark_dirs([i \in 1..Len(m0) |->
             text_prefix \o text0
               \o protect_filename(SubSeq(m0[i], len_lsplit + 1, Len(m0[i])))])
    ELSE IF open_quotes THEN mark_dirs(m0)
    ELSE mark_dirs([i \in 1..Len(m0) |-> text_prefix \o protect_filename(m0[i])])

\* file_matches from the outcome sh of shlex.split(lbuf)[-1] on
file_matches_split(buf, text_in, sh) ==
    LET bang == startswith(text_in, "!")
        text1 == IF bang THEN Tail(text_in) ELSE text_in
        text_prefix == IF bang THEN "!" ELSE ""
        dq == sh.err = "ValueError" /\ Count(buf, "\"") = 1
        sq == sh.err = "ValueError" /\ ~dq /\ Count(buf, "'") = 1
        lsplit == IF sh.err = "" THEN sh.last
                  ELSE IF dq THEN AfterLast(buf, "\"")
                  ELSE IF sq THEN AfterLast(buf, "'")
                  ELSE ""
        has_protectables == lsplit # protect_filename(lsplit)
        text == IF has_protectables THEN lsplit ELSE expanduser(text1)
    IN IF sh.err = "ValueError" /\ ~(dq \/ sq) THEN <<>>
       ELSE IF text = ""
            THEN [i \in 1..Len(glob_star("")) |->
                     text_prefix \o protect_filename(glob_star("")[i])]
       ELSE file_matches_glob(text_prefix, text1, dq \/ sq, has_protectables,
                              Len(lsplit), glob_star(RemoveChar(text, "\\")))

\* IPCompleter.file_matches(text) with self.lbuf = buf
file_matches(buf, text_in) == file_matches_split(buf, text_in, shlex_last(buf))

\* IPCompleter.magic_matches(text)
magic_matches(text) ==
    LET pre == ESC_MAGIC
        baretext == lstripChars(text, pre)
        Hit(m) == startswith(m, baretext)
        hits == SelectSeq(Magics, Hit)
    IN [i \in 1..Len(hits) |-> pre \o hits[i]]

\* IPCompleter.alias_matches(text) with self.lbuf = buf
alias_matches(buf, text_in) ==
    LET text == expanduser(text_in)
        Hit(alias) == startswith(alias, text)
    IN IF InStr(" ", lstrip(buf)) /\ ~startswith(lstrip(buf), "sudo") THEN <<>>
       ELSE IF text = "" THEN AliasKeys
       ELSE SelectSeq(AliasKeys, Hit)

\* ------------------------------------------------------------------------
\* The state of one IPCompleter and of the readline library that drives it
\* ------------------------------------------------------------------------

VARIABLES
    merge_completions,  \* self.merge_completions
    dumb_terminal,      \* self.dumb_terminal
    use_readline,       \* self.use_readline
    use_main_ns,        \* self.use_main_ns
    omit__names,        \* self.omit__names
    namespace,          \* self.namespace, Unbound until a dict is bound
    custom_completers,  \* self.custom_completers, the registry of the shell
    matches,            \* self.matches
    lbuf,               \* self.lbuf
    full_lbuf,          \* self.full_lbuf
    rl_line_buffer,     \* readline.get_line_buffer()
    rl_endidx,          \* readline.get_endidx()
    rl_next,            \* the state readline passes next in the running request
    splitter_delims,    \* self.splitter._delims
    splitter_re,        \* the characters self.splitter._delim_re matches
    held,               \* the list object the first returning complete handed out
    last                \* the call that has just returned, with what it did

vars == <<merge_completions, dumb_terminal, use_readline, use_main_ns,
          omit__names, namespace, custom_completers, matches, lbuf, full_lbuf,
          rl_line_buffer, rl_endidx, rl_next, splitter_delims, splitter_re,
          held, last>>

\* the state of self.splitter
splitter_vars == <<splitter_delims, splitter_re>>

\* the state of the completer and of readline
completer_vars == <<merge_completions, dumb_terminal, use_readline, use_main_ns,
                    omit__names, namespace, custom_completers, matches, lbuf,
                    full_lbuf, rl_line_buffer, rl_endidx, rl_next>>

\* ------------------------------------------------------------------------
\* IPCompleter: python_matches, python_func_kw_matches
\* ------------------------------------------------------------------------

\* re.match(r'.*\.__.*?__', txt) is not None
IsDunderName(txt) ==
    \E i \in 1..(Len(txt) - 2) :
        /\ SubSeq(txt, i, i + 2) = ".__"
        /\ Contains(SubSeq(txt, i + 3, Len(txt)), "__")

\* re.match(r'.*\._.*?', txt) is not None
IsUnderName(txt) == Contains(txt, "._")

\* IPCompleter.python_matches(text)
python_matches(text) ==
    IF InStr(".", text)
    THEN LET ms == attr_matches(namespace, GlobalNs, text)
             no__name(txt) == IF omit__names = 1 THEN ~IsDunderName(txt)
                              ELSE ~IsUnderName(txt)
         IN IF Ch(text, Len(text)) = "." /\ omit__names # 0
            THEN Ok(SelectSeq(ms, no__name))
            ELSE Ok(ms)
    ELSE global_matches(namespace, GlobalNs, text)

RECURSIVE FuncParamsTokens(_)
\* self.__funcParamsRegex.findall(s): quoted strings, identifiers and single
\* other characters, whitespace skipped
FuncParamsTokens(s) ==
    IF s = "" THEN <<>>
    ELSE LET c == Ch(s, 1)
             rest == Tail(s)
             close == {i \in 1..Len(rest) : Ch(rest, i) = c}
             q == CHOOSE i \in close : \A j \in close : i <= j
             run == {i \in 1..Len(s) : \A j \in 1..i : InStr(Ch(s, j), WordChars)}
             w == CHOOSE i \in run : \A j \in run : j <= i
         IN IF InStr(c, Whitespace) THEN FuncParamsTokens(rest)
            ELSE IF InStr(c, "'\"") /\ close # {}
                 THEN <<SubSeq(s, 1, q + 1)>> \o FuncParamsTokens(SubSeq(s, q + 2, Len(s)))
            ELSE IF InStr(c, WordChars)
                 THEN <<SubSeq(s, 1, w)>> \o FuncParamsTokens(SubSeq(s, w + 1, Len(s)))
            ELSE <<c>> \o FuncParamsTokens(rest)

\* list.reverse()
Reverse(seq) == [i \in 1..Len(seq) |-> seq[Len(seq) + 1 - i]]

\* openPar after the first k reversed tokens: ')' counts -1, '(' counts +1
OpenPar(toks, k) ==
    Cardinality({i \in 1..k : toks[i] = "("}) - Cardinality({i \in 1..k : toks[i] = ")"})

RECURSIVE DottedIds(_, _)
\* step 2 of python_func_kw_matches: the identifiers read from reversed
\* token j on, each followed by a '.', until something else is met
DottedIds(toks, j) ==
    IF j > Len(toks) \/ ~IsWord(toks[j]) THEN <<>>
    ELSE IF j + 1 > Len(toks) \/ toks[j + 1] # "." THEN <<toks[j]>>
    ELSE <<toks[j]>> \o DottedIds(toks, j + 2)

RECURSIVE JoinDots(_)
\* '.'.join(ids)
JoinDots(ids) ==
    IF ids = <<>> THEN ""
    ELSE IF Len(ids) = 1 THEN ids[1]
    ELSE ids[1] \o "." \o JoinDots(Tail(ids))

RECURSIVE ArgMatches(_, _)
\* the loop over callableMatches: 'name=' for each defaulted parameter, with
\* prefix text, of each match that evaluates in self.namespace
ArgMatches(callableMatches, text) ==
    IF callableMatches = <<>> THEN <<>>
    ELSE LET obj == Eval(Head(callableMatches), namespace)
             Hit(namedArg) == startswith(namedArg, text)
             named == IF obj = EvalFailed THEN <<>>
                      ELSE SelectSeq(default_arguments(obj), Hit)
         IN [i \in 1..Len(named) |-> named[i] \o "="]
            \o ArgMatches(Tail(callableMatches), text)

\* the end of python_func_kw_matches: the defaulted parameters of the
\* callables found
func_kw_args(text, callableMatches) ==
    IF callableMatches.kind = "raise" THEN callableMatches
    ELSE Ok(ArgMatches(callableMatches.val, text))

\* python_func_kw_matches from the dotted name ids on: the callables looked
\* up with global_matches, or attr_matches for a dotted name
func_kw_ids(text, ids) ==
    func_kw_args(text,
                 IF Len(ids) = 1 THEN global_matches(namespace, GlobalNs, ids[1])
                 ELSE Ok(attr_matches(namespace, GlobalNs, JoinDots(Reverse(ids)))))

\* python_func_kw_matches from the reversed tokens on: the nearest
\* parenthesis left open and the name before it
func_kw_tokens(text, toks) ==
    LET found == {k \in 1..Len(toks) : toks[k] = "(" /\ OpenPar(toks, k) > 0}
        k == CHOOSE i \in found : \A j \in found : i <= j
    IN IF found = {} THEN Ok(<<>>)
       ELSE func_kw_ids(text, DottedIds(toks, k + 1))

\* IPCompleter.python_func_kw_matches(text); self.get_line_buffer exists
\* only with readline
python_func_kw_matches(text) ==
    IF InStr(".", text) THEN Ok(<<>>)
    ELSE IF ~use_readline THEN Raise("AttributeError")
    ELSE func_kw_tokens(text, Reverse(FuncParamsTokens(rl_line_buffer)))

\* ------------------------------------------------------------------------
\* The custom-completer registry and the callbacks registered in it
\* ------------------------------------------------------------------------

\* The callbacks the shell may register: cb_defer raises TryNext, cb_mixed
\* returns a list of candidates
CallbackIds == {"cb_defer", "cb_mixed"}

\* c(event): what the callback does with the event
Callback(c, event) ==
    CASE c = "cb_defer" -> Raise("TryNext")
      [] c = "cb_mixed" -> Ok(<<"foo", "Fob", "foo">>)

\* custom_completers.s_matches(key): the entries registered for exactly the
\* string key, in registration order (an entry is its index in reg)
s_matches(reg, key) ==
    LET Hit(i) == reg[i].kind = "s" /\ reg[i].pat = key
    IN SelectSeq([i \in 1..Len(reg) |-> i], Hit)

\* custom_completers.flat_matches(key): the entries whose flat pattern
\* matches somewhere in key, in registration order
flat_matches(reg, key) ==
    LET Hit(i) == reg[i].kind = "re" /\ Contains(key, reg[i].pat)
    IN SelectSeq([i \in 1..Len(reg) |-> i], Hit)

\* a dispatch that tried the flat patterns before the command's own
CompleterChain_FlatFirst(reg, line, buf) ==
    LET cmd == FirstWord(line)
        try_magic == IF ~startswith(cmd, ESC_MAGIC)
                     THEN s_matches(reg, ESC_MAGIC \o cmd)
                     ELSE <<>>
    IN flat_matches(reg, buf) \o s_matches(reg, cmd) \o try_magic

\* a dispatch without the retry under the magic escape
CompleterChain_NoMagicRetry(reg, line, buf) ==
    s_matches(reg, FirstWord(line)) \o flat_matches(reg, buf)

\* itertools.chain(s_matches(cmd), try_magic, flat_matches(self.lbuf)) of
\* dispatch_custom_completer, for a line that is not blank
CompleterChain(reg, line, buf) ==
    LET cmd == FirstWord(line)
        try_magic == IF ~startswith(cmd, ESC_MAGIC)
                     THEN s_matches(reg, ESC_MAGIC \o cmd)
                     ELSE <<>>
    IN s_matches(reg, cmd) \o try_magic \o flat_matches(reg, buf)

\* a dispatch that filtered without regard to case from the start
case_filter_AnyCase(res, text) ==
    LET text_low == lower(text)
        NoCase(r) == startswith(lower(r), text_low)
    IN SelectSeq(res, NoCase)

\* what dispatch returns for the list res a callback returned: the
\* case-sensitive matches, or without any the case-insensitive ones
case_filter(res, text) ==
    LET WithCase(r) == startswith(r, text)
        text_low == lower(text)
        NoCase(r) == startswith(lower(r), text_low)
        withcase == SelectSeq(res, WithCase)
    IN IF withcase # <<>> THEN withcase ELSE SelectSeq(res, NoCase)

\* a dispatch that gave up at the first callback that deferred
TryCompleters_DeferStops(reg, chain, i, event, calls) ==
    IF i > Len(chain) THEN [kind |-> "none", val |-> <<>>, calls |-> calls]
    ELSE LET r == Callback(reg[chain[i]].cb, event)
             now == Append(calls, chain[i])
         IN IF r.kind = "ok"
            THEN [kind |-> "ok", val |-> case_filter(r.val, event.symbol), calls |-> now]
            ELSE IF r.val = "TryNext" THEN [kind |-> "none", val |-> <<>>, calls |-> now]
            ELSE [kind |-> "raise", val |-> r.val, calls |-> now]

RECURSIVE TryCompleters(_, _, _, _, _)
\* the for loop of dispatch_custom_completer from element i of the chain
\* on: kind "ok" with the filtered list of the first callback that returns,
\* "none" when the chain is exhausted, "raise" for an exception other than
\* TryNext; calls lists the entries whose callbacks were invoked
TryCompleters(reg, chain, i, event, calls) ==
    IF i > Len(chain) THEN [kind |-> "none", val |-> <<>>, calls |-> calls]
    ELSE LET r == Callback(reg[chain[i]].cb, event)
             now == Append(calls, chain[i])
         IN IF r.kind = "ok"
            THEN [kind |-> "ok", val |-> case_filter(r.val, event.symbol), calls |-> now]
            ELSE IF r.val = "TryNext" THEN TryCompleters(reg, chain, i + 1, event, now)
            ELSE [kind |-> "raise", val |-> r.val, calls |-> now]

\* a dispatch that reported an empty list as no override
dispatch_custom_completer_EmptyIsNone(reg, line, buf, text) ==
    IF strip(line) = "" THEN [kind |-> "none", val |-> <<>>, calls |-> <<>>]
    ELSE LET event == [line |-> line, symbol |-> text, command |-> FirstWord(line)]
             d == TryCompleters(reg, CompleterChain(reg, line, buf), 1, event, <<>>)
         IN IF d.kind = "ok" /\ d.val = <<>>
            THEN [kind |-> "none", val |-> <<>>, calls |-> d.calls]
            ELSE d

\* IPCompleter.dispatch_custom_completer(text) with self.full_lbuf = line
\* and self.lbuf = buf
dispatch_custom_completer(reg, line, buf, text) ==
    IF strip(line) = "" THEN [kind |-> "none", val |-> <<>>, calls |-> <<>>]
    ELSE LET event == [line |-> line, symbol |-> text, command |-> FirstWord(line)]
         IN TryCompleters(reg, CompleterChain(reg, line, buf), 1, event, <<>>)

\* ------------------------------------------------------------------------
\* IPCompleter.complete and IPCompleter.rlcomplete
\* ------------------------------------------------------------------------

\* self.matchers, by name
Matchers == <<"python_matches", "file_matches", "magic_matches",
              "alias_matches", "python_func_kw_matches">>

\* matcher(text) for the matcher of that name, with self.lbuf = buf
RunMatcher(name, buf, text) ==
    CASE name = "python_matches" -> python_matches(text)
      [] name = "file_matches" -> Ok(file_matches(buf, text))
      [] name = "magic_matches" -> Ok(magic_matches(text))
      [] name = "alias_matches" -> Ok(alias_matches(buf, text))
      [] name = "python_func_kw_matches" -> python_func_kw_matches(text)

RECURSIVE MergeLoop(_, _, _, _, _)
\* merge mode, matcher i having returned or raised r:
\* self.matches.extend(r), then the next matcher
MergeStep(i, buf, text, acc, ran, r) ==
    IF r.kind = "raise"
    THEN [kind |-> "raise", val |-> r.val, matches |-> acc, ran |-> ran]
    ELSE MergeLoop(i + 1, buf, text, acc \o r.val, ran)

\* merge mode: self.matches.extend(matcher(text)) for each matcher from i
\* on; acc is self.matches, ran the matchers called so far
MergeLoop(i, buf, text, acc, ran) ==
    IF i > Len(Matchers) THEN [kind |-> "ok", matches |-> acc, ran |-> ran]
    ELSE MergeStep(i, buf, text, acc, Append(ran, Matchers[i]),
                   RunMatcher(Matchers[i], buf, text))

RECURSIVE FirstLoop(_, _, _, _, _)
\* a first-match loop without the break
FirstStep_NoBreak(i, buf, text, acc, ran, r) ==
    IF r.kind = "raise"
    THEN [kind |-> "raise", val |-> r.val, matches |-> acc, ran |-> ran]
    ELSE FirstLoop(i + 1, buf, text, r.val, ran)

\* first-match mode, matcher i having returned or raised r:
\* self.matches = r, and a break if it is not empty
FirstStep(i, buf, text, acc, ran, r) ==
    IF r.kind = "raise"
    THEN [kind |-> "raise", val |-> r.val, matches |-> acc, ran |-> ran]
    ELSE IF r.val # <<>> THEN [kind |-> "ok", matches |-> r.val, ran |-> ran]
    ELSE FirstLoop(i + 1, buf, text, r.val, ran)

\* first-match mode: self.matches = matcher(text) for each matcher from i
\* on, until one is not empty
FirstLoop(i, buf, text, acc, ran) ==
    IF i > Len(Matchers) THEN [kind |-> "ok", matches |-> acc, ran |-> ran]
    ELSE FirstStep(i, buf, text, acc, Append(ran, Matchers[i]),
                   RunMatcher(Matchers[i], buf, text))

\* The call of IPCompleter.complete that raised before it touched the
\* completer: nothing is assigned
Untouched(exc) ==
    [ret |-> Raise(exc), text |-> None, matches |-> matches, lbuf |-> lbuf,
     full_lbuf |-> full_lbuf, custom |-> "unreached", calls |-> <<>>,
     ran |-> <<>>, raw |-> <<>>]

\* IPCompleter.complete returning: self.matches = sorted(set(self.matches))
\* with raw the list before and srt the list after, and what the call did
Returned(text, new_lbuf, line_buffer, custom_res, raw, ran, srt) ==
    [ret |-> Ok(<<text, srt>>), text |-> text, matches |-> srt,
     lbuf |-> new_lbuf, full_lbuf |-> line_buffer, custom |-> custom_res.kind,
     calls |-> custom_res.calls, ran |-> ran, raw |-> raw]

\* IPCompleter.complete raising exc after self.matches was cleared: left is
\* what self.matches holds by then
Failed(text, new_lbuf, line_buffer, custom_res, exc, left, ran) ==
    [ret |-> Raise(exc), text |-> text, matches |-> left,
     lbuf |-> new_lbuf, full_lbuf |-> line_buffer, custom |-> custom_res.kind,
     calls |-> custom_res.calls, ran |-> ran, raw |-> left]

\* the end of IPCompleter.complete once the matchers have run
complete_pipeline(text, new_lbuf, line_buffer, custom_res, pipe) ==
    IF pipe.kind = "raise"
    THEN Failed(text, new_lbuf, line_buffer, custom_res, pipe.val, pipe.matches, pipe.ran)
    ELSE Returned(text, new_lbuf, line_buffer, custom_res, pipe.matches, pipe.ran,
                  sorted_set(pipe.matches))

\* a completer that took an empty custom result for none
Overrides_NonEmpty(custom_res) == custom_res.kind = "ok" /\ custom_res.val # <<>>

\* custom_res is not None: the custom completers produced something
Overrides(custom_res) == custom_res.kind = "ok"

\* IPCompleter.complete from custom_res = self.dispatch_custom_completer(text)
\* on: the custom result, or the matchers in merge or first-match mode
complete_custom(text, new_lbuf, line_buffer, custom_res) ==
    IF custom_res.kind = "raise"
    THEN Failed(text, new_lbuf, line_buffer, custom_res, custom_res.val, <<>>, <<>>)
    ELSE IF Overrides(custom_res)
    THEN Returned(text, new_lbuf, line_buffer, custom_res, custom_res.val, <<>>,
                  sorted_set(custom_res.val))
    ELSE complete_pipeline(text, new_lbuf, line_buffer, custom_res,
                           IF merge_completions
                           THEN MergeLoop(1, new_lbuf, text, <<>>, <<>>)
                           ELSE FirstLoop(1, new_lbuf, text, <<>>, <<>>))

\* IPCompleter.complete once text, self.full_lbuf and self.lbuf are set
complete_resolved(text, new_lbuf, line_buffer) ==
    complete_custom(text, new_lbuf, line_buffer,
                    dispatch_custom_completer(custom_completers, line_buffer,
                                              new_lbuf, text))

\* IPCompleter.complete(text, line_buffer, cursor_pos): the value returned
\* or the exception raised (ret), the attributes as the call leaves them
\* (matches, lbuf, full_lbuf), and what the call did: the resolved text,
\* the outcome of the custom dispatch (custom), the entries whose callbacks
\* were invoked (calls), the matchers run (ran) and the list self.matches
\* held before it was sorted (raw)
complete(text_in, line_buffer_in, cursor_in) ==
    LET cursor_pos == IF cursor_in # NoPos THEN cursor_in
                      ELSE IF text_in = None THEN Len(line_buffer_in)
                      ELSE Len(text_in)
        text1 == IF text_in = None \/ text_in = ""
                 THEN split_line(splitter_re, line_buffer_in, cursor_pos).val
                 ELSE text_in
        line_buffer == IF line_buffer_in = None THEN text1 ELSE line_buffer_in
    IN IF cursor_in = NoPos /\ text_in = None /\ line_buffer_in = None
       THEN Untouched("TypeError")
       ELSE IF (text_in = None \/ text_in = "") /\ line_buffer_in = None
       THEN Untouched("TypeError")
       ELSE complete_resolved(IF startswith(text1, "~") THEN expanduser(text1) ELSE text1,
                              Prefix(line_buffer, cursor_pos), line_buffer)

\* a completer that counted the candidates from one
MatchAt_FromOne(ms, state) == IF state >= 1 /\ state <= Len(ms) THEN ms[state] ELSE None

\* self.matches[state], or None past the end (the IndexError is caught)
MatchAt(ms, state) == IF state + 1 <= Len(ms) THEN ms[state + 1] ELSE None

\* ------------------------------------------------------------------------
\* Bounds and the inputs the requests are drawn from
\* ------------------------------------------------------------------------

\* the most entries the shell registers
MaxReg == 2

\* the highest state readline passes to rlcomplete
MaxState == 3

\* the most tabs rlcomplete inserts into one line
MaxTabs == 1

\* the lines of the requests: blank ones, a bare word, a command with an
\* argument, a magic with an argument, an open call
Lines == {"", " ", "fo", "foo F", "%foo fo", "foo(ba"}

\* the text arguments of the requests
Texts == {None, "fo", "FO", "cd"}

\* the lines the user types into readline in a session
SessionLines == {" ", "fo", "foo F", "foo(ba", "fo("}

\* the text arguments of the requests of a session
SessionTexts == {"", "fo"}

\* the patterns the shell registers: for a command (kind "s") or flat, to be
\* found anywhere in the line (kind "re")
Patterns == {[kind |-> "s", pat |-> "foo"], [kind |-> "s", pat |-> "%foo"],
             [kind |-> "s", pat |-> "%%foo"], [kind |-> "re", pat |-> "fo"]}

\* the registries a session starts with: none, or one completer for foo
SessionRegistries == {<<>>, <<[kind |-> "s", pat |-> "foo", cb |-> "cb_mixed"]>>}

\* held while no list has been handed out
NoList == [given |-> FALSE, orig |-> <<>>, now |-> <<>>]

\* the record of last while no call has just returned
NoCall ==
    [op |-> "none", text |-> None, line_buffer |-> None, cursor_pos |-> NoPos,
     state |-> 0, ret |-> Ok(None), res_text |-> None, custom |-> "unreached",
     calls |-> <<>>, ran |-> <<>>, raw |-> <<>>, tab |-> FALSE]

\* ------------------------------------------------------------------------
\* Construction
\* ------------------------------------------------------------------------

\* Completer.__init__ and IPCompleter.__init__ for the flags given:
\* self.namespace is bound only when a namespace is given, self.lbuf and
\* self.full_lbuf are not yet set, self.matches is empty; the registry is
\* the one the shell installs, and readline starts on an empty line.
Construct(merge, dumb, rl, main_ns, omit, reg) ==
    /\ merge_completions = merge
    /\ dumb_terminal = dumb
    /\ use_readline = rl
    /\ use_main_ns = main_ns
    /\ omit__names = omit
    /\ namespace = IF main_ns THEN Unbound ELSE UserNs
    /\ custom_completers = reg
    /\ matches = <<>>
    /\ lbuf = None
    /\ full_lbuf = None
    /\ rl_line_buffer = ""
    /\ rl_endidx = 0
    /\ rl_next = 0
    /\ splitter_delims = DELIMS
    /\ splitter_re = set_delims(DELIMS).val
    /\ held = NoList
    /\ last = NoCall

\* the values of os.environ.get('TERM', 'xterm') at construction
Terms == {"xterm", "dumb", "emacs"}

\* term in ['dumb','emacs']
is_dumb_terminal(term) == term \in {"dumb", "emacs"}

\* A session at the terminal: a completer with readline and a namespace,
\* in either mode and on either kind of terminal
Init ==
    \E merge \in BOOLEAN, term \in Terms, reg \in SessionRegistries :
        Construct(merge, is_dumb_terminal(term), TRUE, FALSE, 0, reg)

\* A completer whose registry the shell is about to fill, in either mode,
\* with and without readline
InitOnce ==
    \E merge \in BOOLEAN, rl \in BOOLEAN :
        Construct(merge, FALSE, rl, FALSE, 0, <<>>)

\* ------------------------------------------------------------------------
\* Operations
\* ------------------------------------------------------------------------

\* The shell registers callback cb for pattern p (set_hook('complete_command')
\* adds to custom_completers); it does so before the first request.
Register(p, cb) ==
    /\ Len(custom_completers) < MaxReg
    /\ last.op = "none"
    /\ custom_completers' = Append(custom_completers, [kind |-> p.kind, pat |-> p.pat, cb |-> cb])
    /\ last' = NoCall
    /\ UNCHANGED <<merge_completions, dumb_terminal, use_readline, use_main_ns,
                   omit__names, namespace, matches, lbuf, full_lbuf,
                   rl_line_buffer, rl_endidx, rl_next, held>>
    /\ UNCHANGED splitter_vars

\* The user edits the line readline holds, leaving the cursor at its end;
\* the running request, if any, is over.
Type(line) ==
    /\ use_readline
    /\ line # rl_line_buffer
    /\ rl_line_buffer' = line
    /\ rl_endidx' = Len(line)
    /\ rl_next' = 0
    /\ last' = NoCall
    /\ UNCHANGED <<merge_completions, dumb_terminal, use_readline, use_main_ns,
                   omit__names, namespace, custom_completers, matches, lbuf,
                   full_lbuf, held>>
    /\ UNCHANGED splitter_vars

\* IPCompleter.complete(text, line_buffer, cursor_pos) having done c: the
\* attributes it leaves and the record of the call
complete_call(text, line_buffer, cursor_pos, c) ==
    /\ matches' = c.matches
    /\ lbuf' = c.lbuf
    /\ full_lbuf' = c.full_lbuf
    /\ rl_next' = 0
    /\ last' = [op |-> "complete", text |-> text, line_buffer |-> line_buffer,
                cursor_pos |-> cursor_pos, state |-> 0, ret |-> c.ret,
                res_text |-> c.text, custom |-> c.custom, calls |-> c.calls,
                ran |-> c.ran, raw |-> c.raw, tab |-> FALSE]
    /\ UNCHANGED <<merge_completions, dumb_terminal, use_readline,
                   use_main_ns, omit__names, namespace, custom_completers,
                   rl_line_buffer, rl_endidx>>
    /\ UNCHANGED splitter_vars

\* A batch request: IPCompleter.complete(text, line_buffer, cursor_pos), from
\* a frontend that keeps no list it was handed
Complete(text, line_buffer, cursor_pos) ==
    \E c \in {complete(text, line_buffer, cursor_pos)} :
       /\ complete_call(text, line_buffer, cursor_pos, c)
       /\ UNCHANGED held

\* readline.insert_text('\t'): a tab goes in at the cursor
insert_tab(line, point) == Prefix(line, point) \o "\t" \o SubSeq(line, point + 1, Len(line))

\* a completer that kept the matches it had
Recomputes_WhenEmpty(state) == state = 0 /\ matches = <<>>

\* if state==0: the call starts a request
Recomputes(state) == state = 0

\* rlcomplete with state 0 once self.complete has returned or raised c
rlcomplete_computed(state, c) ==
    [tab |-> FALSE, computes |-> TRUE,
     ret |-> IF c.ret.kind = "raise" THEN c.ret ELSE Ok(MatchAt(c.matches, state)),
     matches |-> c.matches, lbuf |-> c.lbuf, full_lbuf |-> c.full_lbuf,
     text |-> c.text, custom |-> c.custom, calls |-> c.calls, ran |-> c.ran,
     raw |-> c.raw]

\* rlcomplete doing no more than return ret: nothing is computed
rlcomplete_served(tab, ret, new_full_lbuf) ==
    [tab |-> tab, computes |-> FALSE, ret |-> ret, matches |-> matches,
     lbuf |-> lbuf, full_lbuf |-> new_full_lbuf, text |-> None,
     custom |-> "unreached", calls |-> <<>>, ran |-> <<>>, raw |-> <<>>]

\* an rlcomplete that gives the tab on a dumb terminal too
rlcomplete_TabOnDumb(text, state, line_buffer, cursor_pos) ==
    IF ~Recomputes(state)
    THEN rlcomplete_served(FALSE, Ok(MatchAt(matches, state)), full_lbuf)
    ELSE IF ~(strip(line_buffer) # "")
    THEN rlcomplete_served(TRUE, Ok(None), line_buffer)
    ELSE rlcomplete_computed(state, complete(text, line_buffer, cursor_pos))

\* What IPCompleter.rlcomplete(text, state) does on line_buffer with the
\* cursor at cursor_pos: with state 0 it inserts a tab into a blank line
\* and returns None (tab), or calls complete; then it returns
\* self.matches[state], or None past the end
rlcomplete(text, state, line_buffer, cursor_pos) ==
    IF ~Recomputes(state)
    THEN rlcomplete_served(FALSE, Ok(MatchAt(matches, state)), full_lbuf)
    ELSE IF ~(dumb_terminal \/ strip(line_buffer) # "")
    THEN rlcomplete_served(TRUE, Ok(None), line_buffer)
    ELSE rlcomplete_computed(state, complete(text, line_buffer, cursor_pos))

\* readline calling rlcomplete(text, state), which does r: state is 0, or
\* the next one with the same text while candidates come
rlcomplete_call(text, state, r) ==
    /\ use_readline
    /\ state = rl_next \/ state = 0
    /\ state > 0 => text = last.text
    /\ r.tab => Count(rl_line_buffer, "\t") < MaxTabs
    /\ matches' = r.matches
    /\ lbuf' = r.lbuf
    /\ full_lbuf' = r.full_lbuf
    /\ rl_line_buffer' = IF r.tab THEN insert_tab(rl_line_buffer, rl_endidx)
                         ELSE rl_line_buffer
    /\ rl_next' = IF r.ret.kind = "ok" /\ r.ret.val # None /\ state < MaxState
                  THEN state + 1 ELSE 0
    /\ last' = [op |-> "rlcomplete", text |-> text,
                line_buffer |-> rl_line_buffer, cursor_pos |-> rl_endidx,
                state |-> state, ret |-> r.ret, res_text |-> r.text,
                custom |-> r.custom, calls |-> r.calls, ran |-> r.ran,
                raw |-> r.raw, tab |-> r.tab]
    /\ UNCHANGED <<merge_completions, dumb_terminal, use_readline,
                   use_main_ns, omit__names, namespace, custom_completers,
                   rl_endidx>>
    /\ UNCHANGED splitter_vars

\* An indexed request: readline calls rlcomplete(text, state) with state
\* 0, then 1, 2, ... with the same text, for as long as it gets a candidate
RlComplete(text, state) ==
    \E r \in {rlcomplete(text, state, rl_line_buffer, rl_endidx)} :
       /\ rlcomplete_call(text, state, r)
       /\ UNCHANGED held

\* The first request of a completer, a batch one
CompleteOnce(text, line_buffer, cursor_pos) ==
    /\ last.op = "none"
    /\ Complete(text, line_buffer, cursor_pos)

\* A session: the user types, readline asks for completions by index, a
\* frontend asks for them in a batch
Next ==
    \/ \E line \in SessionLines : Type(line)
    \/ \E text \in SessionTexts, line \in SessionLines :
          \E cursor_pos \in {NoPos, Len(line)} : Complete(text, line, cursor_pos)
    \/ \E text \in SessionTexts, state \in 0..MaxState : RlComplete(text, state)

Spec == Init /\ [][Next]_vars

\* The shell registers completers, then the first request is made
NextOnce ==
    \/ \E p \in Patterns, cb \in CallbackIds : Register(p, cb)
    \/ \E text \in Texts, line \in Lines \cup {None} :
          \E cursor_pos \in {NoPos} \cup (IF line = None THEN {} ELSE {Len(line)}) :
             CompleteOnce(text, line, cursor_pos)

SpecOnce == InitOnce /\ [][NextOnce]_vars

\* ------------------------------------------------------------------------
\* A completer constructed without a namespace
\* ------------------------------------------------------------------------

\* the tokens readline hands to Completer.complete
MainTexts == {"", "fo", "alpha.g"}

\* Completer.complete(self, text, state) once self.namespace is ns: with
\* state 0 the matches are computed, then self.matches[state] is returned,
\* or None past the end
Completer_complete(ns, text, state) ==
    LET ms == IF state # 0 THEN matches
              ELSE IF InStr(".", text) THEN attr_matches(ns, GlobalNs, text)
              ELSE global_matches(ns, GlobalNs, text).val
    IN [matches |-> ms, ret |-> Ok(MatchAt(ms, state))]

\* The base protocol: readline calls Completer.complete(text, state) with
\* state 0, then 1, 2, ...; __main__.__dict__ is bound first when no
\* namespace was given
CompleterComplete(text, state) ==
    /\ state = 0 \/ (state = rl_next /\ last.op = "Completer.complete" /\ text = last.text)
    /\ \E ns \in {IF use_main_ns THEN MainDict ELSE namespace} :
       \E c \in {Completer_complete(ns, text, state)} :
          /\ namespace' = ns
          /\ matches' = c.matches
          /\ rl_next' = IF c.ret.val # None /\ state < MaxState THEN state + 1 ELSE 0
          /\ last' = [NoCall EXCEPT !.op = "Completer.complete", !.text = text,
                                    !.state = state, !.ret = c.ret]
    /\ UNCHANGED <<merge_completions, dumb_terminal, use_readline, use_main_ns,
                   omit__names, custom_completers, lbuf, full_lbuf,
                   rl_line_buffer, rl_endidx, held>>
    /\ UNCHANGED splitter_vars

\* IPCompleter(shell) with namespace=None, in either mode
InitMainNs == \E merge \in BOOLEAN : Construct(merge, FALSE, TRUE, TRUE, 0, <<>>)

\* its session: the three protocols in any order
NextMainNs ==
    \/ \E line \in SessionLines : Type(line)
    \/ \E text \in SessionTexts, line \in SessionLines : Complete(text, line, Len(line))
    \/ \E text \in SessionTexts, state \in 0..MaxState : RlComplete(text, state)
    \/ \E text \in MainTexts, state \in 0..MaxState : CompleterComplete(text, state)

SpecMainNs == InitMainNs /\ [][NextMainNs]_vars

\* ------------------------------------------------------------------------
\* The base Completer as readline's completer
\* ------------------------------------------------------------------------

\* the tokens readline hands to it: names and dotted names
CompleterTexts == {"", "a", "f", "fo", "fr", "for", "F", "al", "__", "x",
                   "alpha.g", "alpha.", "alpha.b", "alpha._", "alpha.beta.",
                   "alpha.gamma.", "Fob.", "Fob.g", "foo.", "notdefined.x",
                   "for.x", "alpha..g", "alpha.beta.g", "alpha.be", "format.",
                   "Fo", "from", "alp"}

\* Completer(namespace, global_namespace), with or without a namespace
InitCompleter == \E main_ns \in BOOLEAN : Construct(FALSE, FALSE, FALSE, main_ns, 0, <<>>)

NextCompleter ==
    \E text \in CompleterTexts, state \in 0..MaxState : CompleterComplete(text, state)

SpecCompleter == InitCompleter /\ [][NextCompleter]_vars

\* ------------------------------------------------------------------------
\* One request to a completer without custom completers
\* ------------------------------------------------------------------------

\* the lines of the requests: commands with arguments, shell escapes with
\* and without an open quote, dotted names
MatchLines == {"l", "ls l", "sudo l", "sudoku l", "!", "!a", "ls fo\\ ", "\"!su",
               "alpha.", "alpha._", "alpha.g", "alpha._hid.", "alpha.__doc__."}

\* the text arguments of the requests; None leaves the token to the splitter
MatchTexts == {None, "!", "!a", "!su"}

\* IPCompleter(shell, namespace, global_namespace, omit__names) with
\* readline, in either mode and at each level of omit__names
InitMatch ==
    \E merge \in BOOLEAN, omit \in 0..2 : Construct(merge, FALSE, TRUE, FALSE, omit, <<>>)

\* its first request, the cursor at the end of the line
NextMatch ==
    \E text \in MatchTexts, line \in MatchLines : CompleteOnce(text, line, Len(line))

SpecMatch == InitMatch /\ [][NextMatch]_vars

\* ------------------------------------------------------------------------
\* A frontend that keeps the list a batch request handed it
\* ------------------------------------------------------------------------

\* the list h the frontend holds once a later call has got as far as the
\* custom dispatch (custom): until that call self.matches is the same list
\* object, and self.matches[:] = [] empties it in place
emptied(h, custom) ==
    IF h.given /\ custom # "unreached" THEN [h EXCEPT !.now = <<>>] ELSE h

\* A batch request whose caller keeps the list of the first call that
\* returns: return text, self.matches hands out the object self.matches
CompleteHeld(text, line_buffer, cursor_pos) ==
    \E c \in {complete(text, line_buffer, cursor_pos)} :
       /\ complete_call(text, line_buffer, cursor_pos, c)
       /\ held' = IF ~held.given /\ c.ret.kind = "ok"
                  THEN [given |-> TRUE, orig |-> c.matches, now |-> c.matches]
                  ELSE emptied(held, c.custom)

\* An indexed request while the frontend holds that list
RlCompleteHeld(text, state) ==
    \E r \in {rlcomplete(text, state, rl_line_buffer, rl_endidx)} :
       /\ rlcomplete_call(text, state, r)
       /\ held' = emptied(held, r.custom)

\* the lines of that session
HeldLines == {" ", "fo", "foo F"}

\* a completer with readline and no custom completers, in either mode
InitHeld == \E merge \in BOOLEAN : Construct(merge, FALSE, TRUE, FALSE, 0, <<>>)

NextHeld ==
    \/ \E line \in HeldLines : Type(line)
    \/ \E text \in SessionTexts, line \in HeldLines : CompleteHeld(text, line, Len(line))
    \/ \E text \in SessionTexts, state \in 0..MaxState : RlCompleteHeld(text, state)

SpecHeld == InitHeld /\ [][NextHeld]_vars

\* ------------------------------------------------------------------------
\* all_completions, the entry point of the emacs integration
\* ------------------------------------------------------------------------

\* self.full_lbuf once it is bound to the integer i
IntLine(i) == "<int " \o ToString(i) \o ">"

\* self.complete(text, i, text) as all_completions calls it: line_buffer is
\* the integer i and cursor_pos the string text. cursor_pos is not None, so
\* it gets no default; an empty text makes split_line slice the integer
\* (TypeError, nothing assigned); otherwise self.full_lbuf = i is assigned
\* and self.full_lbuf[:cursor_pos] slices the integer (TypeError)
complete_index(text, i) ==
    IF text = "" THEN [ret |-> Raise("TypeError"), full_lbuf |-> full_lbuf]
    ELSE [ret |-> Raise("TypeError"), full_lbuf |-> IntLine(i)]

RECURSIVE all_completions_from(_, _, _)
\* the loop of all_completions from index i on, completions being the
\* results appended so far: it ends when a call returns a false value or
\* raises, and only NameError is caught
all_completions_from(text, i, completions) ==
    LET c == complete_index(text, i)
    IN IF c.ret.kind = "raise"
       THEN [ret |-> IF c.ret.val = "NameError" THEN Ok(completions) ELSE c.ret,
             full_lbuf |-> c.full_lbuf]
       ELSE IF c.ret.val = None THEN [ret |-> Ok(completions), full_lbuf |-> c.full_lbuf]
       ELSE all_completions_from(text, i + 1, Append(completions, c.ret.val))

\* IPCompleter.all_completions(text)
all_completions(text) == all_completions_from(text, 0, <<>>)

\* emacs asks for all the completions of text
AllCompletions(text) ==
    \E r \in {all_completions(text)} :
       /\ full_lbuf' = r.full_lbuf
       /\ rl_next' = 0
       /\ last' = [NoCall EXCEPT !.op = "all_completions", !.text = text, !.ret = r.ret]
       /\ UNCHANGED <<merge_completions, dumb_terminal, use_readline, use_main_ns,
                      omit__names, namespace, custom_completers, matches, lbuf,
                      rl_line_buffer, rl_endidx, held>>
       /\ UNCHANGED splitter_vars

\* a session in which emacs and a frontend both ask
NextAll ==
    \/ \E line \in HeldLines : Type(line)
    \/ \E text \in SessionTexts, line \in HeldLines : Complete(text, line, Len(line))
    \/ \E text \in SessionTexts : AllCompletions(text)

SpecAll == InitHeld /\ [][NextAll]_vars

\* ------------------------------------------------------------------------
\* The splitter on its own
\* ------------------------------------------------------------------------

\* the delimiter strings a frontend sets: none, a space, a dot, both, the
\* letter d, the default ones
SplitterDelims == {"", " ", ".", " .", "d", DELIMS}

\* the lines it splits
SplitterLines == {"a b", "ad1b", "a.b c", "ab"}

\* self.splitter.set_delims(delims): the assignments follow re.compile
SetDelims(delims) ==
    \E r \in {set_delims(delims)} :
       /\ splitter_re' = IF r.kind = "ok" THEN r.val ELSE splitter_re
       /\ splitter_delims' = IF r.kind = "ok" THEN delims ELSE splitter_delims
       /\ last' = [NoCall EXCEPT !.op = "set_delims", !.text = delims,
                                 !.ret = IF r.kind = "ok" THEN Ok(None) ELSE r]
       /\ UNCHANGED completer_vars
    /\ UNCHANGED held

\* self.splitter.get_delims()
GetDelims ==
    /\ last' = [NoCall EXCEPT !.op = "get_delims", !.ret = Ok(splitter_delims)]
    /\ UNCHANGED completer_vars
    /\ UNCHANGED held
    /\ UNCHANGED splitter_vars

\* self.splitter.split_line(line, cursor_pos)
SplitLine(line, cursor_pos) ==
    /\ last' = [NoCall EXCEPT !.op = "split_line", !.line_buffer = line,
                              !.cursor_pos = cursor_pos,
                              !.ret = split_line(splitter_re, line, cursor_pos)]
    /\ UNCHANGED completer_vars
    /\ UNCHANGED held
    /\ UNCHANGED splitter_vars

\* a completer whose splitter a frontend uses
InitSplitter == Construct(FALSE, FALSE, TRUE, FALSE, 0, <<>>)

NextSplitter ==
    \/ \E delims \in SplitterDelims : SetDelims(delims)
    \/ GetDelims
    \/ \E line \in SplitterLines, cursor_pos \in {NoPos} \cup 0..5 :
          cursor_pos <= Len(line) /\ SplitLine(line, cursor_pos)

SpecSplitter == InitSplitter /\ [][NextSplitter]_vars

\* ------------------------------------------------------------------------
\* Properties of a session at the terminal (specification Spec)
\* ------------------------------------------------------------------------

\* C1 as the specification states it: whenever rlcomplete(text, s) returns,
\* what it returns is element s of the match set the batch request
\* complete(text, line_buffer, cursor_pos) yields on the same buffer and
\* cursor, and None when s is past the end of that set. It fails on a blank
\* line of a terminal that is not dumb, where the state-0 call inserts a tab
\* and returns None although the batch set is not empty.
C1_IndexedEqualsBatch ==
    (last.op = "rlcomplete" /\ last.ret.kind = "ok") =>
        \A b \in {complete(last.text, last.line_buffer, last.cursor_pos)} :
            b.ret.kind = "ok" =>
                last.ret.val = IF last.state < Len(b.ret.val[2])
                               THEN b.ret.val[2][last.state + 1]
                               ELSE None

\* C1, amended: the indexed calls return the candidates of the batch match
\* set in order, and None past its end, whenever the state-0 call did not
\* take the tab shortcut (the line is not blank, or the terminal is dumb).
C1_IndexedEqualsBatchUnlessTab ==
    (last.op = "rlcomplete" /\ last.ret.kind = "ok" /\ ~last.tab) =>
        \A b \in {complete(last.text, last.line_buffer, last.cursor_pos)} :
            /\ b.ret.kind = "ok"
            /\ last.ret.val = IF last.state < Len(b.ret.val[2])
                              THEN b.ret.val[2][last.state + 1]
                              ELSE None

\* the call rlcomplete(text, 3) has returned None after a match set of three
\* candidates was served
C1_Witness ==
    /\ last.op = "rlcomplete"
    /\ last.state = 3
    /\ last.ret = Ok(None)
    /\ Len(matches) = 3

C4_PipelineModes ==
    (last.op \in {"complete", "rlcomplete"} /\ last.ret.kind = "ok"
                                            /\ last.custom = "none") =>
        LET Order == <<"python_matches", "file_matches", "magic_matches",
                       "alias_matches", "python_func_kw_matches">>
            Out(n) == RunMatcher(Order[n], lbuf, last.res_text).val
        IN IF merge_completions
           THEN /\ last.ran = Order
                /\ last.raw = Out(1) \o Out(2) \o Out(3) \o Out(4) \o Out(5)
           ELSE \E n \in 1..5 :
                   /\ last.ran = SubSeq(Order, 1, n)
                   /\ \A j \in 1..(n - 1) : Out(j) = <<>>
                   /\ last.raw = Out(n)
                   /\ n < 5 => Out(n) # <<>>

\* in first-match mode the first four matchers returned empty and the
\* fifth produced the aggregate
C4_Witness ==
    /\ last.op = "complete"
    /\ last.ret.kind = "ok"
    /\ last.custom = "none"
    /\ ~merge_completions
    /\ Len(last.ran) = 5
    /\ last.raw # <<>>

\* ------------------------------------------------------------------------
\* Properties of one batch request (specification SpecOnce)
\* ------------------------------------------------------------------------

\* a < b in the order of sorted() on strings, character by character
LexLess(a, b) ==
    \E k \in 0..Len(a) :
        /\ k <= Len(b)
        /\ \A i \in 1..k : Ch(a, i) = Ch(b, i)
        /\ IF k = Len(a) THEN k < Len(b)
           ELSE k < Len(b) /\ Ord(Ch(a, k + 1)) < Ord(Ch(b, k + 1))

\* C2: after a call of complete that returned, the list returned and
\* self.matches are the same list, strictly increasing in lexicographic
\* order, whichever source the candidates came from.
C2_MatchesStrictlyIncreasing ==
    (last.op = "complete" /\ last.ret.kind = "ok") =>
        /\ matches = last.ret.val[2]
        /\ \A i \in 1..(Len(matches) - 1) : LexLess(matches[i], matches[i + 1])

\* the aggregate held a candidate twice and at least two candidates remain
C2_Witness ==
    /\ last.op = "complete"
    /\ last.ret.kind = "ok"
    /\ Len(last.raw) > Len(matches)
    /\ Len(matches) >= 2

\* C3: when dispatch_custom_completer returns a list, the empty one
\* included, no matcher of the pipeline is run and the match set is the
\* sorted set of the custom result; the pipeline runs exactly when dispatch
\* returns None.
C3_OverrideShortCircuits ==
    (last.op = "complete" /\ last.ret.kind = "ok") =>
        \A d \in {dispatch_custom_completer(custom_completers, full_lbuf, lbuf,
                                            last.res_text)} :
            /\ d.kind = "ok" =>
                  /\ last.ran = <<>>
                  /\ Range(matches) = Range(d.val)
                  /\ \A i \in 1..(Len(matches) - 1) : LexLess(matches[i], matches[i + 1])
            /\ d.kind = "none" <=> last.ran # <<>>

\* the custom completers returned the empty list for a text the pipeline has
\* a candidate for, and the match set is empty
C3_Witness ==
    /\ last.op = "complete"
    /\ last.ret.kind = "ok"
    /\ last.custom = "ok"
    /\ matches = <<>>
    /\ last.ran = <<>>
    /\ magic_matches(last.res_text) # <<>>

\* the event dispatch built for the call that has just returned
C_Event == [line |-> full_lbuf, symbol |-> last.res_text, command |-> FirstWord(full_lbuf)]

\* the callback of entry i raises TryNext for that event
C_Defers(i) == Callback(custom_completers[i].cb, C_Event) = Raise("TryNext")

\* a call of complete has just gone through dispatch on a line that is not blank
C_Dispatched ==
    /\ last.op = "complete"
    /\ last.custom \in {"ok", "none"}
    /\ strip(full_lbuf) # ""

\* the group of entry i as C5 states them: 1 for the command's own
\* pattern, 2 for the command with the escape prepended, 3 for a flat
\* pattern found in the buffer, 0 for an entry that is no candidate
C5_GroupAsStated(i) ==
    LET e == custom_completers[i]
        cmd == FirstWord(full_lbuf)
    IN IF e.kind = "s" /\ e.pat = cmd THEN 1
       ELSE IF e.kind = "s" /\ e.pat = ESC_MAGIC \o cmd THEN 2
       ELSE IF e.kind = "re" /\ Contains(lbuf, e.pat) THEN 3
       ELSE 0

\* the same, the second group existing only for a command that does not
\* start with the escape itself
C5_Group(i) ==
    IF C5_GroupAsStated(i) = 2 /\ startswith(FirstWord(full_lbuf), ESC_MAGIC)
    THEN 0 ELSE C5_GroupAsStated(i)

\* C5 as the specification states it: every callback dispatch invokes
\* belongs to one of the three groups, and before it every callback of an
\* earlier group has been invoked and has deferred. It fails for a command
\* that starts with the escape: the callbacks registered for the command
\* with one more escape prepended are never tried.
C5_GroupOrderAsStated ==
    C_Dispatched =>
        \A j \in 1..Len(last.calls) :
            /\ C5_GroupAsStated(last.calls[j]) >= 1
            /\ \A i \in 1..Len(custom_completers) :
                  (C5_GroupAsStated(i) >= 1
                      /\ C5_GroupAsStated(i) < C5_GroupAsStated(last.calls[j])) =>
                     /\ \E k \in 1..(j - 1) : last.calls[k] = i
                     /\ C_Defers(i)

\* C5, amended: the same order, the second group being tried only when the
\* command does not itself start with the magic escape.
C5_GroupOrder ==
    C_Dispatched =>
        \A j \in 1..Len(last.calls) :
            /\ C5_Group(last.calls[j]) >= 1
            /\ \A i \in 1..Len(custom_completers) :
                  (C5_Group(i) >= 1 /\ C5_Group(i) < C5_Group(last.calls[j])) =>
                     /\ \E k \in 1..(j - 1) : last.calls[k] = i
                     /\ C_Defers(i)

\* a callback of an earlier group deferred and one of a later group was
\* invoked after it
C5_Witness ==
    /\ C_Dispatched
    /\ Len(last.calls) = 2
    /\ C5_Group(last.calls[1]) < C5_Group(last.calls[2])

\* C6 as the specification states it: on a line whose command is the
\* escape followed by a name, with no completer registered for the command
\* itself, a completer registered for the bare name is invoked. It fails:
\* dispatch looks up the command and, for a bare command only, the command
\* with the escape prepended.
C6_BareFiresForMagic ==
    (C_Dispatched /\ startswith(FirstWord(full_lbuf), ESC_MAGIC)) =>
        LET cmd == FirstWord(full_lbuf)
            bare == SubSeq(cmd, 2, Len(cmd))
            reg == custom_completers
        IN \A i \in 1..Len(reg) :
              (/\ reg[i].kind = "s" /\ reg[i].pat = bare
               /\ \A k \in 1..Len(reg) : ~(reg[k].kind = "s" /\ reg[k].pat = cmd)) =>
                 \E j \in 1..Len(last.calls) : last.calls[j] = i

\* C6, amended: on a line whose command is a bare name, with no completer
\* registered for the bare name, the first completer registered for the
\* name with the escape prepended is invoked, before any other; on a line
\* whose command starts with the escape, no completer registered for the
\* bare name is invoked.
C6_MagicFiresForBare ==
    C_Dispatched =>
        LET cmd == FirstWord(full_lbuf)
            bare == SubSeq(cmd, 2, Len(cmd))
            reg == custom_completers
        IN IF ~startswith(cmd, ESC_MAGIC)
           THEN \A i \in 1..Len(reg) :
                   (/\ reg[i].kind = "s" /\ reg[i].pat = ESC_MAGIC \o cmd
                    /\ \A k \in 1..Len(reg) : ~(reg[k].kind = "s" /\ reg[k].pat = cmd)
                    /\ \A k \in 1..(i - 1) :
                          ~(reg[k].kind = "s" /\ reg[k].pat = ESC_MAGIC \o cmd)) =>
                      /\ last.calls # <<>>
                      /\ last.calls[1] = i
           ELSE \A j \in 1..Len(last.calls) :
                   ~(reg[last.calls[j]].kind = "s" /\ reg[last.calls[j]].pat = bare)

\* the completer registered for %foo has produced the candidates of a line
\* whose command is foo
C6_Witness ==
    /\ C_Dispatched
    /\ FirstWord(full_lbuf) = "foo"
    /\ last.custom = "ok"
    /\ Len(last.calls) = 1
    /\ custom_completers[last.calls[1]].kind = "s"
    /\ custom_completers[last.calls[1]].pat = "%foo"

\* C7: the callbacks invoked are an initial part of the chain; all but the
\* last of them deferred; when dispatch returns a list the last one returned
\* normally and the list is made of its result alone; when dispatch returns
\* None the whole chain was invoked and deferred.
C7_DeferContinues ==
    C_Dispatched =>
        LET chain == CompleterChain(custom_completers, full_lbuf, lbuf)
            n == Len(last.calls)
        IN /\ n <= Len(chain)
           /\ last.calls = SubSeq(chain, 1, n)
           /\ \A j \in 1..(n - 1) : C_Defers(last.calls[j])
           /\ last.custom = "ok" =>
                 /\ n >= 1
                 /\ ~C_Defers(last.calls[n])
                 /\ Range(last.raw) \subseteq
                       Range(Callback(custom_completers[last.calls[n]].cb, C_Event).val)
           /\ last.custom = "none" =>
                 /\ n = Len(chain)
                 /\ \A j \in 1..n : C_Defers(last.calls[j])

\* the first callback deferred and the second produced candidates
C7_Witness ==
    /\ C_Dispatched
    /\ last.custom = "ok"
    /\ Len(last.calls) = 2
    /\ C_Defers(last.calls[1])
    /\ last.raw # <<>>

\* C8: the list dispatch returns is made from the result res of the first
\* callback of the chain that returns normally: the elements of res that
\* start with the text if there is one, otherwise the elements whose
\* lower-cased form starts with the lower-cased text, and no later
\* callback is invoked.
C8_CaseFilterPerCallback ==
    (C_Dispatched /\ last.custom = "ok") =>
        LET chain == CompleterChain(custom_completers, full_lbuf, lbuf)
            first == CHOOSE j \in 1..Len(chain) :
                        /\ ~C_Defers(chain[j])
                        /\ \A k \in 1..(j - 1) : C_Defers(chain[k])
            res == Callback(custom_completers[chain[first]].cb, C_Event).val
            t == last.res_text
            Sensitive(r) == Len(t) <= Len(r) /\ SubSeq(r, 1, Len(t)) = t
            Insensitive(r) == Len(t) <= Len(r) /\ lower(SubSeq(r, 1, Len(t))) = lower(t)
        IN /\ last.raw = IF \E i \in 1..Len(res) : Sensitive(res[i])
                         THEN SelectSeq(res, Sensitive)
                         ELSE SelectSeq(res, Insensitive)
           /\ Len(last.calls) = first

\* no element of the callback's result starts with the text, and those
\* that do without regard to case were returned
C8_Witness ==
    /\ C_Dispatched
    /\ last.custom = "ok"
    /\ last.raw # <<>>
    /\ \A i \in 1..Len(last.raw) : ~startswith(last.raw[i], last.res_text)

\* C9: dispatch returns None exactly when the line is blank, or the chain
\* of matching callbacks is empty, or every callback of the chain deferred;
\* otherwise it returns a list, which may be empty.
C9_NoneIffNoOverride ==
    (last.op = "complete" /\ last.custom \in {"ok", "none"}) =>
        LET chain == CompleterChain(custom_completers, full_lbuf, lbuf)
        IN last.custom = "none" <=>
              \/ strip(full_lbuf) = ""
              \/ chain = <<>>
              \/ \A j \in 1..Len(chain) : C_Defers(chain[j])

\* a callback returned normally, none of its candidates fits the text, and
\* dispatch returned the empty list
C9_Witness ==
    /\ C_Dispatched
    /\ last.custom = "ok"
    /\ last.raw = <<>>
    /\ ~C_Defers(last.calls[Len(last.calls)])

\* ------------------------------------------------------------------------
\* Properties of the matchers
\* ------------------------------------------------------------------------

\* C11: when the candidates come from the built-in matchers, every
\* candidate of the match set complete returns begins, case-sensitively,
\* with the token returned alongside it. It fails in merge mode:
\* magic_matches prepends the magic escape, so the token "fo" gets the
\* candidate "%foo".
C11_CandidatesStartWithToken ==
    (last.op = "complete" /\ last.ret.kind = "ok" /\ last.custom = "none") =>
        \A i \in 1..Len(last.ret.val[2]) :
            /\ Len(last.ret.val[1]) <= Len(last.ret.val[2][i])
            /\ SubSeq(last.ret.val[2][i], 1, Len(last.ret.val[1])) = last.ret.val[1]

\* C12: a call of complete that is given a text or a line buffer returns a
\* (token, matches) pair: no exception of a matcher reaches the caller. It
\* fails for a completer built without readline: python_func_kw_matches
\* calls self.get_line_buffer, which only exists with readline.
C12_CompleteNeverRaises ==
    (last.op = "complete"
        /\ ~(last.text \in {None, ""} /\ last.line_buffer = None)) =>
        last.ret.kind = "ok"

\* C13: after a call of complete with a line buffer and no cursor position,
\* self.lbuf is the whole line buffer. It fails when a text is given too:
\* the cursor is then taken to be at len(text), and self.lbuf is the line
\* cut to the length of the text.
C13_CursorDefaultsToEndOfLine ==
    (last.op = "complete" /\ last.line_buffer # None /\ last.cursor_pos = NoPos) =>
        lbuf = last.line_buffer

\* ------------------------------------------------------------------------
\* Properties of the splitter (specification SpecSplitter)
\* ------------------------------------------------------------------------

\* C14: once set_delims(d) has returned, get_delims returns d, and
\* split_line(line, cursor_pos) returns the longest suffix of
\* line[:cursor_pos], or of the line without a cursor, that holds no
\* character of d. It fails for a delimiter that is a letter: set_delims
\* escapes every character with a backslash, and '\d' in the class stands
\* for the digits, so "ad1b" is split after the 1 and not after the d.
C14_SplitsAtLastDelimiter ==
    /\ (last.op = "set_delims" /\ last.ret.kind = "ok") => splitter_delims = last.text
    /\ last.op = "get_delims" => last.ret = Ok(splitter_delims)
    /\ last.op = "split_line" =>
          LET l == IF last.cursor_pos = NoPos THEN last.line_buffer
                   ELSE SubSeq(last.line_buffer, 1, last.cursor_pos)
              Clean(k) == \A i \in (k + 1)..Len(l) :
                             \A j \in 1..Len(splitter_delims) :
                                Ch(l, i) # Ch(splitter_delims, j)
              k == CHOOSE n \in 0..Len(l) : Clean(n) /\ \A m \in 0..(n - 1) : ~Clean(m)
          IN last.ret = Ok(SubSeq(l, k + 1, Len(l)))


\* ------------------------------------------------------------------------
\* Properties of a completer without a namespace (specification SpecMainNs)
\* ------------------------------------------------------------------------

\* C15: a completer constructed without a namespace binds
\* __main__.__dict__ at every request that computes matches, in the base
\* protocol, in IPCompleter.complete and in rlcomplete, so that no matcher
\* finds self.namespace unbound. It fails: IPCompleter.complete and
\* rlcomplete never bind it, and python_matches raises AttributeError until
\* Completer.complete has been called once.
C15_NamespaceBoundAtEveryRequest ==
    (/\ use_main_ns
     /\ last.op \in {"complete", "rlcomplete", "Completer.complete"}
     /\ last.state = 0
     /\ ~last.tab) =>
        /\ namespace = MainDict
        /\ last.ret # Raise("AttributeError")


\* ------------------------------------------------------------------------
\* Properties of the matchers, continued (specification SpecOnce)
\* ------------------------------------------------------------------------

\* C16: every candidate of file_matches that names a directory ends with
\* the path separator, whatever the token, the empty one included (a.txt
\* and sub/ in the current directory). It fails for the empty token: that
\* branch returns the listing of the current directory without mark_dirs.
C16_DirectoriesAreMarked ==
    (/\ last.op = "complete"
     /\ last.ret.kind = "ok"
     /\ \E j \in 1..Len(last.ran) : last.ran[j] = "file_matches") =>
        LET fm == file_matches(lbuf, last.res_text)
            Path(m) == expanduser(RemoveChar(IF startswith(m, "!") THEN Tail(m) ELSE m, "\\"))
        IN \A i \in 1..Len(fm) : isdir(Path(fm[i])) => Ch(fm[i], Len(fm[i])) = "/"


\* ------------------------------------------------------------------------
\* Properties of a session at the terminal, continued (specification Spec)
\* ------------------------------------------------------------------------

\* C17: python_func_kw_matches returns nothing for a token with a dot;
\* otherwise it scans the tokens of readline's line from the end, ')'
\* counting -1 and '(' counting +1, down to the rightmost parenthesis left
\* open, returns nothing exactly when there is none, and proposes the
\* defaulted parameters, with the token as prefix, of the callable named by
\* the dotted identifiers before that parenthesis. It fails: the single name
\* before the parenthesis is looked up with global_matches, a prefix search,
\* so on the line "fo(" the parameters of foo and format are proposed for
\* fo, which names nothing; and nothing is returned inside a call whose
\* parameters do not start with the token.
C17_ParametersOfTheCallableBeforeOpenParen ==
    (/\ last.op \in {"complete", "rlcomplete"}
     /\ last.ret.kind = "ok"
     /\ \E j \in 1..Len(last.ran) : last.ran[j] = "python_func_kw_matches") =>
        LET text == last.res_text
            r == python_func_kw_matches(text)
            toks == Reverse(FuncParamsTokens(rl_line_buffer))
            unclosed == {k \in 1..Len(toks) :
                            /\ toks[k] = "("
                            /\ \A m \in 1..k :
                                  OpenPar(toks, k) - OpenPar(toks, m - 1) > 0}
            k == CHOOSE i \in unclosed : \A j \in unclosed : i <= j
            obj == Eval(JoinDots(Reverse(DottedIds(toks, k + 1))), namespace)
            Hit(namedArg) == startswith(namedArg, text)
            named == IF obj = EvalFailed THEN <<>>
                     ELSE SelectSeq(default_arguments(obj), Hit)
        IN /\ r.kind = "ok"
           /\ InStr(".", text) => r.val = <<>>
           /\ ~InStr(".", text) =>
                 /\ (r.val = <<>>) <=> (unclosed = {})
                 /\ unclosed # {} => r.val = [i \in 1..Len(named) |-> named[i] \o "="]


\* ------------------------------------------------------------------------
\* Properties of the base Completer (specification SpecCompleter)
\* ------------------------------------------------------------------------

\* C18: attr_matches on a dotted token evaluates the path before the last
\* dot in the namespace, and in the global namespace only when that fails;
\* when both fail it returns the empty list and does not raise
\* ("notdefined.x" gives []); otherwise the candidates are exactly the path,
\* a dot and each member of the object whose name starts with the partial
\* name ("alpha.g" gives ["alpha.gamma"]).
C18_AttrMatchesPrimaryThenSecondary ==
    (last.op = "Completer.complete" /\ last.state = 0 /\ InStr(".", last.text)) =>
        LET text == last.text
            dots == {i \in 1..Len(text) : Ch(text, i) = "."}
            d == CHOOSE i \in dots : \A j \in dots : j <= i
            path == SubSeq(text, 1, d - 1)
            partial == SubSeq(text, d + 1, Len(text))
            primary == Eval(path, namespace)
            secondary == Eval(path, GlobalNs)
            obj == IF primary # EvalFailed THEN primary ELSE secondary
            members == {w \in Range(Keys(ObjMembers(obj))) : startswith(w, partial)}
        IN /\ last.ret.kind = "ok"
           /\ (primary = EvalFailed /\ secondary = EvalFailed) => matches = <<>>
           /\ obj # EvalFailed => Range(matches) = {path \o "." \o w : w \in members}

\* a request for "alpha.g" found alpha in the namespace, where it has the
\* members beta and gamma, though the global namespace binds alpha too
C18_Witness ==
    /\ last.op = "Completer.complete"
    /\ last.state = 0
    /\ last.text = "alpha.g"
    /\ Eval("alpha", namespace) # Eval("alpha", GlobalNs)
    /\ Eval("alpha", GlobalNs) # EvalFailed
    /\ matches = <<"alpha.gamma">>
    /\ last.ret = Ok("alpha.gamma")


\* C19: rlcomplete with state 0 on an empty or blank line: on a terminal
\* that is not dumb it inserts a tab into the line, returns None and
\* computes no matches; on a dumb terminal (TERM dumb or emacs) it inserts no
\* tab and computes the matches as usual. On a line that is not blank it
\* inserts no tab, whatever the terminal.
C19_TabOnlyOnBlankLineOfCapableTerminal ==
    (last.op = "rlcomplete" /\ last.state = 0) =>
        IF strip(last.line_buffer) = "" /\ ~dumb_terminal
        THEN /\ last.tab
             /\ rl_line_buffer = insert_tab(last.line_buffer, last.cursor_pos)
             /\ last.ret = Ok(None)
             /\ last.custom = "unreached"
             /\ last.ran = <<>>
        ELSE /\ ~last.tab
             /\ rl_line_buffer = last.line_buffer
             /\ last.custom # "unreached"
             /\ full_lbuf = last.line_buffer

\* readline asked for the first completion of a blank line on a dumb
\* terminal: no tab went in and the matches were computed
C19_Witness ==
    /\ last.op = "rlcomplete"
    /\ last.state = 0
    /\ strip(last.line_buffer) = ""
    /\ dumb_terminal
    /\ ~last.tab
    /\ rl_line_buffer = last.line_buffer
    /\ last.custom # "unreached"
    /\ matches # <<>>


\* C20: global_matches(text) returns the keywords, then the builtin names,
\* then the names of the namespace, then the names of the global namespace,
\* each list in its own order, keeping the names that start with text,
\* letter case respected; "__builtins__" is never returned, and every
\* other name with that prefix in any of the four lists is.
C20_GlobalMatchesScanOrder ==
    (last.op = "Completer.complete" /\ last.state = 0 /\ ~InStr(".", last.text)) =>
        LET words == KwList \o Keys(BuiltinDict) \o Keys(namespace) \o Keys(GlobalNs)
            Kept(w) == w # "__builtins__" /\ Len(last.text) <= Len(w)
                          /\ \A i \in 1..Len(last.text) : Ch(w, i) = Ch(last.text, i)
        IN /\ \A i \in 1..Len(matches) : matches[i] # "__builtins__"
           /\ matches = SelectSeq(words, Kept)
           /\ last.ret = Ok(IF matches = <<>> THEN None ELSE matches[1])

\* the names starting with "f": two keywords, a builtin, then the names of
\* the namespace, one of them a builtin's name again; "__builtins__", bound
\* in both namespaces, is absent from the matches of "__"
C20_Witness ==
    /\ last.op = "Completer.complete"
    /\ last.state = 0
    /\ last.text = "f"
    /\ matches = <<"for", "from", "format", "foo", "format">>
    /\ HasKey(namespace, "__builtins__")


\* ------------------------------------------------------------------------
\* Properties of one matcher (specification SpecMatch)
\* ------------------------------------------------------------------------

\* C21: alias_matches returns candidates only when the token is the first
\* word of the line, leading whitespace aside, or when the first word of the
\* line is exactly sudo; a line whose first word only begins with sudo and
\* is followed by other words gets none. It fails for such a line: the test
\* is startswith('sudo'), which the first word sudoku passes.
C21_AliasesOnlyForFirstWordOrSudo ==
    (/\ last.op = "complete"
     /\ last.ret.kind = "ok"
     /\ \E j \in 1..Len(last.ran) : last.ran[j] = "alias_matches") =>
        LET l == lstrip(lbuf)
            token_is_first == \A i \in 1..Len(l) : ~InStr(Ch(l, i), Whitespace)
        IN alias_matches(lbuf, last.res_text) # <<>> =>
               token_is_first \/ FirstWord(lbuf) = "sudo"


\* C22: for a token that starts with the shell escape '!', file_matches
\* matches what follows the mark and every candidate it returns begins with
\* '!', in each of its branches: nothing after the mark, a fragment with
\* protectable characters, a plain fragment, a line with an open quote. It
\* fails in the last one: with an open quote the names found are returned as
\* they are, without the mark.
C22_ShellEscapeIsRestored ==
    (/\ last.op = "complete"
     /\ last.ret.kind = "ok"
     /\ \E j \in 1..Len(last.ran) : last.ran[j] = "file_matches"
     /\ startswith(last.res_text, "!")) =>
        LET fm == file_matches(lbuf, last.res_text)
        IN \A i \in 1..Len(fm) : startswith(fm[i], "!")


\* C24: with omit__names set, python_matches on a dotted token whose partial
\* name does not start with an underscore removes, at level 1, exactly the
\* candidates whose last member name is a double-underscore name and, at
\* level 2, exactly those whose last member name starts with an underscore,
\* whatever the path before it; a partial name that starts with an
\* underscore removes nothing. It fails for a path that holds such a name:
\* the patterns are searched in the whole candidate, so every member of
\* alpha._hid or alpha.__doc__ is removed.
C24_OmitNamesLooksAtLastMember ==
    (/\ last.op = "complete"
     /\ last.ret.kind = "ok"
     /\ \E j \in 1..Len(last.ran) : last.ran[j] = "python_matches"
     /\ InStr(".", last.res_text)
     /\ omit__names # 0) =>
        LET text == last.res_text
            found == attr_matches(namespace, GlobalNs, text)
            pm == python_matches(text).val
            Dunder(w) == Len(w) >= 4 /\ SubSeq(w, 1, 2) = "__"
                            /\ SubSeq(w, Len(w) - 1, Len(w)) = "__"
            Kept(c) == IF omit__names = 1 THEN ~Dunder(AfterLast(c, "."))
                       ELSE ~startswith(AfterLast(c, "."), "_")
        IN IF startswith(AfterLast(text, "."), "_") THEN pm = found
           ELSE pm = SelectSeq(found, Kept)


\* ------------------------------------------------------------------------
\* Properties of a request, continued (specification SpecOnce)
\* ------------------------------------------------------------------------

\* C23: once IPCompleter.complete has returned or has been left by an
\* exception, self.matches is the sorted set of the request, complete and
\* without duplicates, or it is empty; a list half aggregated or unsorted
\* is never left behind. It fails in merge mode: the matchers extend
\* self.matches one after the other, and when one of them raises the list
\* keeps what the earlier ones put in, unsorted and with duplicates.
C23_MatchesCompleteOrEmpty ==
    last.op = "complete" =>
        IF last.ret.kind = "ok"
        THEN /\ matches = sorted_set(last.raw)
             /\ matches = last.ret.val[2]
        ELSE matches = <<>>


\* ------------------------------------------------------------------------
\* Properties of the list handed to the caller (specification SpecHeld)
\* ------------------------------------------------------------------------

\* C25: the list a call of IPCompleter.complete handed to its caller holds
\* the same candidates in the same order after every later complete or
\* rlcomplete call. It fails: the list handed out is the object
\* self.matches, and the next request that computes matches starts with
\* self.matches[:] = [], which empties that object in place.
C25_HandedListIsNotModified ==
    held.given => held.now = held.orig


\* ------------------------------------------------------------------------
\* Properties of all_completions (specification SpecAll)
\* ------------------------------------------------------------------------

\* C26: all_completions(text) terminates for every text and returns the
\* candidates of the match set the completer computes for text, asked for by
\* index 0, 1, 2, ... until an exhausted result comes back. It fails for
\* every text: the call self.complete(text, i, text) hands the index in as
\* line_buffer and the text as cursor_pos, and complete raises TypeError
\* when it slices the integer.
C26_AllCompletionsReturnsTheMatchSet ==
    last.op = "all_completions" =>
        /\ last.ret.kind = "ok"
        /\ last.ret.val = complete(last.text, None, NoPos).matches

====
